---- MODULE Spec2Model ----
(***************************************************************************)
(* State-machine model of the LLM-guided job manager                       *)
(* (src/AGI_Evolutive/runtime/job_manager.py): JobRecord, JobContext and   *)
(* JobManager with its two worker threads.                                 *)
(*                                                                         *)
(* Atomicity follows the manager lock: every `with self._lock:` block is   *)
(* one step.  The oracle call and the job body run outside the lock, so a  *)
(* worker that is inside one of them is a position (pc) at which every     *)
(* other thread may take steps.  What a worker computes from thread-local  *)
(* data between the oracle's return and its next locked block              *)
(* (_extract_job_id on the reply and the sampled list) is folded into the  *)
(* step of that locked block.                                              *)
(*                                                                         *)
(* Job ids (uuid4 strings in the code) are 1, 2, 3, ... in creation order; *)
(* the job table is the sequence `jobs`, indexed by id.  Floats in [0,1]   *)
(* are tenths (0..10).  Python None is "None" for strings and the named    *)
(* values below for numbers.  fn, args and timeout_s are opaque to the     *)
(* manager (timeout_s is stored and never read) and are not part of the    *)
(* record here; what a body does is the choice of BodyReturns,             *)
(* BodyRaises, BodyEscapes and UpdateProgress.                             *)
(***************************************************************************)
EXTENDS Integers, Sequences, FiniteSets, TLC

\* ------------------------------------------------------------------ bounds
MaxJobs == 2

MaxTime == 2

MaxReplyLen == 2

\* Jobs waiting in the background queue of a loaded manager.
MaxBacklog == 12

\* Payloads a consumer takes from a nearly full completion buffer.
MaxPolled == 2

\* ------------------------------------------------------- program constants
CompletionsMaxLen == 256

HistoryMaxLen == 200

CandidateCap == 10

DrainLimit == 64

LowLoadThreshold == 2

\* ----------------------------------------------------------- value spaces
Queues == {"interactive", "background"}

None == "None"

NoDuration == -1

\* An id that names no record.
UnknownId == 0

CancelArgs == {UnknownId} \cup (1..MaxJobs)

NoSelection == 0

\* submit(queue, priority, key, urgent) as called: a keyed job for a queue
\* name the manager does not know, the same key with every other argument
\* changed (urgent, queue background, a priority below 0), and an
\* interactive job with an empty key and a priority above 1.  A call
\* without key (key=None) takes the branches of the empty key: both are
\* false where submit tests `key`.
SubmitArgs ==
    {<<"other", 5, "A", "None">>,
     <<"background", -5, "A", "TRUE">>,
     <<"interactive", 15, "", "FALSE">>}

KeyArgs == {a[3] : a \in SubmitArgs}

\* interactive_workers, background_workers: the constructor's defaults.
WorkerConfigs == {<<1, 2>>}

ProgressArgs == {-2, 5}

LimitArgs == {-1, 0, 2}

StoreArgs == {"None", "no_add_memory", "accepting", "failing"}

Results == {"r"}

Errors == {"boom"}

Notes == {"n"}

Active == {"queued", "running"}

Terminal == {"done", "error", "cancelled"}

\* --------------------------------------------------------------- variables
VARIABLES
    budgets,          \* self.budgets[q]["max_running"]
    jobs,             \* self._jobs, a sequence indexed by job id
    queues,           \* self._queues
    key_map,          \* self._key_map
    cancelled,        \* self._cancelled
    running_counts,   \* self._running_counts
    completions,      \* self._completions
    history,          \* self._history
    running,          \* self._running
    pc,               \* position of each worker thread
    candidates,       \* the list sampled by the worker's current round
    current,          \* the job the worker is executing (0: none)
    now,              \* the value time.time() returns
    last,             \* the most recent call and what it returned
    appended,         \* per job id, how many payloads were ever appended for it
    delivered,        \* serial of every payload ever returned by poll_completed
    lock,             \* the thread inside a `with self._lock:` block ("free": none)
    payload           \* per worker, the oracle payload it has built

vars == <<budgets, jobs, queues, key_map, cancelled, running_counts,
          completions, history, running, pc, candidates, current, now, last,
          appended, delivered, lock, payload>>

\* The lock and the payloads, which only the steps of the lock-level
\* specification below change.
sync == <<lock, payload>>

\* No payload: the worker is not between sampling and the oracle's answer.
NoPayload == [built |-> FALSE, jobs |-> <<>>, history |-> <<>>]

\* ----------------------------------------------------------------- helpers
\* `last` after a step that returns nothing to a caller.
Quiet == [op |-> "-", arg |-> 0, val |-> 0]

Max(a, b) == IF a >= b THEN a ELSE b

Min(a, b) == IF a <= b THEN a ELSE b

Clamp01(v) == Max(0, Min(10, v))

Ids == DOMAIN jobs

\* f[lo] + ... + f[hi], by halves so that a long table is summed in few
\* nested steps.
RECURSIVE Sum(_, _, _)
Sum(f, lo, hi) ==
    IF lo > hi THEN 0
    ELSE IF lo = hi THEN f[lo]
    ELSE Sum(f, lo, (lo + hi) \div 2) + Sum(f, (lo + hi) \div 2 + 1, hi)

Total(f, n) == Sum(f, 1, n)

RECURSIVE Remove(_, _)
Remove(s, x) ==
    IF s = <<>> THEN <<>>
    ELSE IF Head(s) = x THEN Tail(s)
    ELSE <<Head(s)>> \o Remove(Tail(s), x)

InSeq(s, x) == \E i \in DOMAIN s : s[i] = x

RemoveIfPresentNoop(s, x) == s

RemoveIfPresent(s, x) == IF InSeq(s, x) THEN Remove(s, x) ELSE s

PrefixOneMore(s, n) == SubSeq(s, 1, Min(n + 1, Len(s)))

Prefix(s, n) == SubSeq(s, 1, Min(n, Len(s)))

DequeAppendDropsNewest(d, x, maxlen) ==
    IF Len(d) >= maxlen THEN d ELSE Append(d, x)

DequeAppend(d, x, maxlen) ==
    IF Len(d) >= maxlen THEN Append(Tail(d), x) ELSE Append(d, x)

RequestedQueue(queue) ==
    IF queue = "interactive" THEN "interactive" ELSE "background"

UrgentFlag(urgent) == urgent = "TRUE"

AssignedQueueIgnoresUrgent(queue, urgent) == RequestedQueue(queue)

AssignedQueue(queue, urgent) ==
    IF UrgentFlag(urgent) \/ RequestedQueue(queue) = "interactive"
    THEN "interactive" ELSE "background"

NewRecordStarted(id, kind, queue, priority, key, urgent) ==
    [id |-> id, kind |-> kind, queue |-> AssignedQueue(queue, urgent),
     priority |-> Clamp01(priority),
     requested_queue |-> RequestedQueue(queue),
     urgent |-> UrgentFlag(urgent), key |-> key,
     created_ts |-> now, started_ts |-> now, finished_ts |-> 0,
     status |-> "queued", result |-> None, error |-> None,
     llm_notes |-> None, progress |-> 0]

NewRecord(id, kind, queue, priority, key, urgent) ==
    [id |-> id, kind |-> kind, queue |-> AssignedQueue(queue, urgent),
     priority |-> Clamp01(priority),
     requested_queue |-> RequestedQueue(queue),
     urgent |-> UrgentFlag(urgent), key |-> key,
     created_ts |-> now, started_ts |-> 0, finished_ts |-> 0,
     status |-> "queued", result |-> None, error |-> None,
     llm_notes |-> None, progress |-> 0]

NotesOrEmptyDropsNotes(n) == "{}"

NotesOrEmpty(n) == IF n = None THEN "{}" ELSE n

CompletionPayload(job) ==
    [job_id |-> job.id, kind |-> job.kind, queue |-> job.queue,
     status |-> job.status, result |-> job.result, error |-> job.error,
     duration |-> IF job.finished_ts # 0 /\ job.started_ts # 0
                  THEN job.finished_ts - job.started_ts ELSE NoDuration,
     llm_notes |-> NotesOrEmpty(job.llm_notes),
     created_ts |-> job.created_ts, started_ts |-> job.started_ts,
     finished_ts |-> job.finished_ts,
     serial |-> Total(appended, Len(appended)) + 1]

AppendCompletion(job) ==
    /\ completions' = DequeAppend(completions, CompletionPayload(job),
                                  CompletionsMaxLen)
    /\ appended' = [appended EXCEPT ![job.id] = @ + 1]

Budgets(interactive_workers, background_workers) ==
    [q \in Queues |-> IF q = "interactive"
                      THEN Max(1, interactive_workers)
                      ELSE Max(1, background_workers)]

\* ------------------------------------------------------------------- Init
Init ==
    /\ \E w \in WorkerConfigs : budgets = Budgets(w[1], w[2])
    /\ jobs = <<>>
    /\ queues = [q \in Queues |-> <<>>]
    /\ key_map = <<>>
    /\ cancelled = {}
    /\ running_counts = [q \in Queues |-> 0]
    /\ completions = <<>>
    /\ history = <<>>
    /\ running = TRUE
    /\ pc = [q \in Queues |-> "top"]
    /\ candidates = [q \in Queues |-> <<>>]
    /\ current = [q \in Queues |-> 0]
    /\ now = 1
    /\ last = Quiet
    /\ appended = [i \in 1..MaxJobs |-> 0]
    /\ delivered = <<>>
    /\ lock = "free"
    /\ payload = [q \in Queues |-> NoPayload]

\* ------------------------------------------------------------------ clock
Tick ==
    /\ now < MaxTime
    /\ now' = now + 1
    /\ last' = Quiet
    /\ UNCHANGED <<budgets, jobs, queues, key_map, cancelled, running_counts,
                   completions, history, running, pc, candidates, current,
                   appended, delivered>>

\* ----------------------------------------------------------------- submit
KeyHitQueuedOnly(key) ==
    /\ key \notin {None, ""}
    /\ key \in DOMAIN key_map
    /\ key_map[key] \in Ids
    /\ jobs[key_map[key]].status = "queued"

KeyHit(key) ==
    /\ key \notin {None, ""}
    /\ key \in DOMAIN key_map
    /\ key_map[key] \in Ids
    /\ jobs[key_map[key]].status \in Active

SetKey(km, key, id) ==
    [k \in (DOMAIN km) \cup {key} |-> IF k = key THEN id ELSE km[k]]

SubmitExistingReprioritises(queue, priority, key, urgent) ==
    /\ jobs' = [jobs EXCEPT ![key_map[key]].priority = Clamp01(priority)]
    /\ last' = [op |-> "submit", arg |-> <<queue, priority, key, urgent>>,
                val |-> key_map[key]]
    /\ UNCHANGED <<budgets, queues, key_map, cancelled, running_counts,
                   completions, history, running, pc, candidates, current,
                   now, appended, delivered>>

\* The key names a queued or running job: return its id.
SubmitExisting(queue, priority, key, urgent) ==
    /\ last' = [op |-> "submit", arg |-> <<queue, priority, key, urgent>>,
                val |-> key_map[key]]
    /\ UNCHANGED <<budgets, jobs, queues, key_map, cancelled, running_counts,
                   completions, history, running, pc, candidates, current,
                   now, appended, delivered>>

SubmitNew(kind, queue, priority, key, urgent) ==
    /\ Len(jobs) < MaxJobs
    /\ LET job_id == Len(jobs) + 1
           record == NewRecord(job_id, kind, queue, priority, key, urgent)
       IN /\ jobs' = Append(jobs, record)
          /\ queues' = [queues EXCEPT ![record.queue] = Append(@, job_id)]
          /\ key_map' = IF key \notin {None, ""}
                        THEN SetKey(key_map, key, job_id) ELSE key_map
          /\ last' = [op |-> "submit",
                      arg |-> <<queue, priority, key, urgent>>,
                      val |-> job_id]
    /\ UNCHANGED <<budgets, cancelled, running_counts, completions, history,
                   running, pc, candidates, current, now, appended,
                   delivered>>

Submit(kind, queue, priority, key, urgent) ==
    IF KeyHit(key)
    THEN SubmitExisting(queue, priority, key, urgent)
    ELSE SubmitNew(kind, queue, priority, key, urgent)

\* ----------------------------------------------------------------- cancel
CancellableWhileActive(job_id) ==
    job_id \in Ids /\ jobs[job_id].status \in Active

Cancellable(job_id) == job_id \in Ids /\ jobs[job_id].status = "queued"

Cancel(job_id) ==
    IF Cancellable(job_id)
    THEN LET job == [jobs[job_id] EXCEPT !.status = "cancelled",
                                         !.finished_ts = now]
         IN /\ jobs' = [jobs EXCEPT ![job_id] = job]
            /\ queues' = [queues EXCEPT ![job.queue] =
                              RemoveIfPresent(@, job_id)]
            /\ cancelled' = cancelled \cup {job_id}
            /\ AppendCompletion(job)
            /\ last' = [op |-> "cancel", arg |-> 0, val |-> TRUE]
            /\ UNCHANGED <<budgets, key_map, running_counts, history, running,
                           pc, candidates, current, now, delivered>>
    ELSE /\ last' = [op |-> "cancel", arg |-> 0, val |-> FALSE]
         /\ UNCHANGED <<budgets, jobs, queues, key_map, cancelled,
                        running_counts, completions, history, running, pc,
                        candidates, current, now, appended, delivered>>

\* --------------------------------------------------------- poll_completed
PollCount(limit) == Min(Len(completions), Max(1, limit))

PollTakenNewest(limit) ==
    SubSeq(completions, Len(completions) - PollCount(limit) + 1,
           Len(completions))

PollTaken(limit) == SubSeq(completions, 1, PollCount(limit))

PollLeftPeek(limit) == completions

PollLeft(limit) == SubSeq(completions, PollCount(limit) + 1, Len(completions))

Serials(items) == [i \in DOMAIN items |-> items[i].serial]

PollCompleted(limit) ==
    /\ completions' = PollLeft(limit)
    /\ delivered' = delivered \o Serials(PollTaken(limit))
    /\ last' = [op |-> "poll_completed", arg |-> limit,
                val |-> Len(PollTaken(limit))]
    /\ UNCHANGED <<budgets, jobs, queues, key_map, cancelled, running_counts,
                   history, running, pc, candidates, current, now, 
                   appended>>

\* --------------------------------------------------------- drain_to_memory
MemoryRecord(completion) ==
    [kind |-> "job_completion", job_id |-> completion.job_id,
     status |-> completion.status, result |-> completion.result,
     error |-> completion.error, queue |-> completion.queue,
     duration |-> completion.duration, llm |-> completion.llm_notes]

RECURSIVE PersistedStopsAtFailure(_, _, _)
PersistedStopsAtFailure(items, i, failing) ==
    IF i > Len(items) \/ i \in failing THEN <<>>
    ELSE <<MemoryRecord(items[i])>>
             \o PersistedStopsAtFailure(items, i + 1, failing)

RECURSIVE Persisted(_, _, _)
Persisted(items, i, failing) ==
    IF i > Len(items) THEN <<>>
    ELSE IF i \in failing THEN Persisted(items, i + 1, failing)
    ELSE <<MemoryRecord(items[i])>> \o Persisted(items, i + 1, failing)

DrainToMemory(store, failing) ==
    /\ completions' = PollLeft(DrainLimit)
    /\ delivered' = delivered \o Serials(PollTaken(DrainLimit))
    /\ last' = [op |-> "drain_to_memory", arg |-> 0,
                val |-> [drained |-> Len(PollTaken(DrainLimit)),
                         stored |-> IF store \in {"None", "no_add_memory"}
                                    THEN <<>>
                                    ELSE Persisted(PollTaken(DrainLimit), 1,
                                                   failing)]]
    /\ UNCHANGED <<budgets, jobs, queues, key_map, cancelled, running_counts,
                   history, running, pc, candidates, current, now, appended>>

\* ------------------------------------------------------------- is_low_load
LowLoad ==
    Len(queues["interactive"]) + Len(queues["background"])
        + running_counts["interactive"] + running_counts["background"]
        < LowLoadThreshold

\* ---------------------------------------------------------------- shutdown
Shutdown ==
    /\ running' = FALSE
    /\ last' = [op |-> "shutdown", arg |-> 0, val |-> 0]
    /\ UNCHANGED <<budgets, jobs, queues, key_map, cancelled, running_counts,
                   completions, history, pc, candidates, current, now, 
                   appended, delivered>>

\* ------------------------------------------------------------- worker loop
IsQueued(jid) == jid \in Ids /\ jobs[jid].status = "queued"

SampleOldRecordsOnly(queue) ==
    LET IsOld(jid) == jid <= CandidateCap /\ IsQueued(jid)
    IN SelectSeq(queues[queue], IsOld)

Sample(queue) == Prefix(SelectSeq(queues[queue], IsQueued), CandidateCap)

WorkerRoundSpins(queue) ==
    /\ pc[queue] = "top"
    /\ IF ~running
       THEN /\ last' = Quiet
            /\ UNCHANGED <<pc, candidates>>
       ELSE IF running_counts[queue] >= budgets[queue]
       THEN /\ last' = Quiet
            /\ UNCHANGED <<pc, candidates>>
       ELSE IF Sample(queue) = <<>>
       THEN /\ last' = Quiet
            /\ UNCHANGED <<pc, candidates>>
       ELSE /\ pc' = [pc EXCEPT ![queue] = "oracle"]
            /\ candidates' = [candidates EXCEPT ![queue] = Sample(queue)]
            /\ last' = Quiet
    /\ UNCHANGED <<budgets, jobs, queues, key_map, cancelled, running_counts,
                   completions, history, running, current, now, appended,
                   delivered>>

\* One pass of _worker_loop up to the oracle call: the read of self._running
\* and, when it is set, the first locked block of _select_job (budget check
\* and candidate sampling).  A None return sends the worker through its idle
\* sleep back to the top of the loop.
WorkerRound(queue) ==
    /\ pc[queue] = "top"
    /\ IF ~running
       THEN /\ pc' = [pc EXCEPT ![queue] = "exited"]
            /\ last' = Quiet
            /\ UNCHANGED candidates
       ELSE IF running_counts[queue] >= budgets[queue]
       THEN /\ last' = Quiet
            /\ UNCHANGED <<pc, candidates>>
       ELSE IF Sample(queue) = <<>>
       THEN /\ last' = Quiet
            /\ UNCHANGED <<pc, candidates>>
       ELSE /\ pc' = [pc EXCEPT ![queue] = "oracle"]
            /\ candidates' = [candidates EXCEPT ![queue] = Sample(queue)]
            /\ last' = Quiet
    /\ UNCHANGED <<budgets, jobs, queues, key_map, cancelled, running_counts,
                   completions, history, running, current, now, appended,
                   delivered>>

FailJobKeepsQueued(job_id, reason) ==
    LET job == [jobs[job_id] EXCEPT !.status = "queued", !.error = reason,
                                    !.finished_ts = now]
    IN /\ jobs' = [jobs EXCEPT ![job_id] = job]
       /\ queues' = [queues EXCEPT ![job.queue] = RemoveIfPresent(@, job_id)]
       /\ AppendCompletion(job)

\* _fail_job
FailJob(job_id, reason) ==
    LET job == [jobs[job_id] EXCEPT !.status = "error", !.error = reason,
                                    !.finished_ts = now]
    IN /\ jobs' = [jobs EXCEPT ![job_id] = job]
       /\ queues' = [queues EXCEPT ![job.queue] = RemoveIfPresent(@, job_id)]
       /\ AppendCompletion(job)

OracleRaisesFailsHead(queue) ==
    /\ pc[queue] = "oracle"
    /\ pc' = [pc EXCEPT ![queue] = "top"]
    /\ candidates' = [candidates EXCEPT ![queue] = <<>>]
    /\ FailJob(candidates[queue][1], "llm_unavailable")
    /\ last' = [op |-> "oracle_raised", arg |-> 0, val |-> queue]
    /\ UNCHANGED <<budgets, key_map, cancelled, running_counts, history,
                   running, current, now, delivered>>

OracleRaisesDropsHead(queue) ==
    /\ pc[queue] = "oracle"
    /\ pc' = [pc EXCEPT ![queue] = "top"]
    /\ candidates' = [candidates EXCEPT ![queue] = <<>>]
    /\ queues' = [queues EXCEPT ![queue] =
                      RemoveIfPresent(@, candidates[queue][1])]
    /\ last' = [op |-> "oracle_raised", arg |-> 0, val |-> queue]
    /\ UNCHANGED <<budgets, jobs, key_map, cancelled, running_counts,
                   completions, history, running, current, now, appended,
                   delivered>>

\* call_dict raises LLMUnavailableError or LLMIntegrationError.
OracleRaises(queue) ==
    /\ pc[queue] = "oracle"
    /\ pc' = [pc EXCEPT ![queue] = "top"]
    /\ candidates' = [candidates EXCEPT ![queue] = <<>>]
    /\ last' = [op |-> "oracle_raised", arg |-> 0, val |-> queue]
    /\ UNCHANGED <<budgets, jobs, queues, key_map, cancelled, running_counts,
                   completions, history, running, current, now, 
                   appended, delivered>>

\* call_dict raises anything else: nothing catches it and the thread ends.
OracleCrashes(queue) ==
    /\ pc[queue] = "oracle"
    /\ pc' = [pc EXCEPT ![queue] = "crashed"]
    /\ candidates' = [candidates EXCEPT ![queue] = <<>>]
    /\ last' = Quiet
    /\ UNCHANGED <<budgets, jobs, queues, key_map, cancelled, running_counts,
                   completions, history, running, current, now, 
                   appended, delivered>>

\* Replies: shape "none" is a reply that is not a mapping, "nolist" a mapping
\* whose prioritized_jobs is not a list, "list" a mapping with the list
\* `items`.  An item's job_id is a job id, or UnknownId for an item that is
\* not a mapping or whose job_id is not the id of any record.
Items == [job_id : {UnknownId} \cup (1..MaxJobs), note : Notes]

ItemLists == UNION {[1..n -> Items] : n \in 0..MaxReplyLen}

Responses ==
    {[shape |-> s, items |-> <<>>] : s \in {"none", "nolist"}}
        \cup {[shape |-> "list", items |-> l] : l \in ItemLists}

Range(s) == {s[i] : i \in DOMAIN s}

FirstAmongTakesHead(items, ids) ==
    IF items = <<>> THEN NoSelection ELSE Head(items).job_id

RECURSIVE FirstAmong(_, _)
FirstAmong(items, ids) ==
    IF items = <<>> THEN NoSelection
    ELSE IF Head(items).job_id \in ids THEN Head(items).job_id
    ELSE FirstAmong(Tail(items), ids)

ExtractJobId(response, cands) ==
    IF response.shape # "list" THEN NoSelection
    ELSE FirstAmong(response.items, Range(cands))

RECURSIVE FirstNotes(_, _)
FirstNotes(items, job_id) ==
    IF items = <<>> THEN None
    ELSE IF Head(items).job_id = job_id THEN Head(items).note
    ELSE FirstNotes(Tail(items), job_id)

ExtractJobNotes(response, job_id) ==
    IF response.shape # "list" THEN None
    ELSE FirstNotes(response.items, job_id)

\* How many entries of prioritized_jobs _extract_job_id passed over before
\* it returned `job_id`.
RECURSIVE Skipped(_, _)
Skipped(items, job_id) ==
    IF items = <<>> \/ Head(items).job_id = job_id THEN 0
    ELSE 1 + Skipped(Tail(items), job_id)

AdmitUncounted(queue, selected_id, response) ==
    IF selected_id \notin Ids \/ jobs[selected_id].status # "queued"
    THEN /\ pc' = [pc EXCEPT ![queue] = "top"]
         /\ last' = [op |-> "stale_selection", arg |-> 0, val |-> selected_id]
         /\ UNCHANGED <<jobs, queues, running_counts, current>>
    ELSE /\ jobs' = [jobs EXCEPT ![selected_id] =
                        [@ EXCEPT !.status = "running", !.started_ts = now,
                                  !.llm_notes =
                                      ExtractJobNotes(response, selected_id)]]
         /\ queues' = [queues EXCEPT ![queue] =
                          RemoveIfPresent(@, selected_id)]
         /\ current' = [current EXCEPT ![queue] = selected_id]
         /\ pc' = [pc EXCEPT ![queue] = "body"]
         /\ last' = [op |-> "admitted",
                     arg |-> Skipped(response.items, selected_id),
                     val |-> selected_id]
         /\ UNCHANGED running_counts

AdmitUnchecked(queue, selected_id, response) ==
    IF selected_id \notin Ids
    THEN /\ pc' = [pc EXCEPT ![queue] = "top"]
         /\ last' = [op |-> "stale_selection", arg |-> 0, val |-> selected_id]
         /\ UNCHANGED <<jobs, queues, running_counts, current>>
    ELSE /\ jobs' = [jobs EXCEPT ![selected_id] =
                        [@ EXCEPT !.status = "running", !.started_ts = now,
                                  !.llm_notes =
                                      ExtractJobNotes(response, selected_id)]]
         /\ queues' = [queues EXCEPT ![queue] =
                          RemoveIfPresent(@, selected_id)]
         /\ running_counts' = [running_counts EXCEPT ![queue] = @ + 1]
         /\ current' = [current EXCEPT ![queue] = selected_id]
         /\ pc' = [pc EXCEPT ![queue] = "body"]
         /\ last' = [op |-> "admitted",
                     arg |-> Skipped(response.items, selected_id),
                     val |-> selected_id]

AdmitAbandons(queue, selected_id, response) ==
    /\ pc' = [pc EXCEPT ![queue] = "top"]
    /\ last' = [op |-> "stale_selection", arg |-> 0, val |-> selected_id]
    /\ UNCHANGED <<jobs, queues, running_counts, current>>

\* Second locked block of _select_job.
Admit(queue, selected_id, response) ==
    IF selected_id \notin Ids \/ jobs[selected_id].status # "queued"
    THEN /\ pc' = [pc EXCEPT ![queue] = "top"]
         /\ last' = [op |-> "stale_selection", arg |-> 0, val |-> selected_id]
         /\ UNCHANGED <<jobs, queues, running_counts, current>>
    ELSE /\ jobs' = [jobs EXCEPT ![selected_id] =
                        [@ EXCEPT !.status = "running", !.started_ts = now,
                                  !.llm_notes =
                                      ExtractJobNotes(response, selected_id)]]
         /\ queues' = [queues EXCEPT ![queue] =
                          RemoveIfPresent(@, selected_id)]
         /\ running_counts' = [running_counts EXCEPT ![queue] = @ + 1]
         /\ current' = [current EXCEPT ![queue] = selected_id]
         /\ pc' = [pc EXCEPT ![queue] = "body"]
         /\ last' = [op |-> "admitted",
                     arg |-> Skipped(response.items, selected_id),
                     val |-> selected_id]

\* call_dict returns `response`; the rest of _select_job follows.
OracleReplies(queue, response) ==
    /\ pc[queue] = "oracle"
    /\ candidates' = [candidates EXCEPT ![queue] = <<>>]
    /\ IF ExtractJobId(response, candidates[queue]) = NoSelection
       THEN /\ FailJob(candidates[queue][1], "llm_missing_selection")
            /\ pc' = [pc EXCEPT ![queue] = "top"]
            /\ last' = Quiet
            /\ UNCHANGED <<running_counts, current>>
       ELSE /\ Admit(queue, ExtractJobId(response, candidates[queue]),
                     response)
            /\ UNCHANGED <<completions, appended>>
    /\ UNCHANGED <<budgets, key_map, cancelled, history, running, now, 
                   delivered>>

\* ------------------------------------------------------------ job execution
\* JobContext.update_progress -> _update_progress
UpdateProgress(queue, value) ==
    /\ pc[queue] = "body"
    /\ jobs' = IF current[queue] \in Ids
                  /\ jobs[current[queue]].status = "running"
               THEN [jobs EXCEPT ![current[queue]].progress = Clamp01(value)]
               ELSE jobs
    /\ last' = Quiet
    /\ UNCHANGED <<budgets, queues, key_map, cancelled, running_counts,
                   completions, history, running, pc, candidates, current,
                   now,  appended, delivered>>

\* JobContext.cancelled -> _is_cancelled
IsCancelled(job_id) == job_id \in cancelled

DecrementNever(count) == count

DecrementSlip(count) == Max(0, count + 1)

Decrement(count) == Max(0, count - 1)

\* The finally block of _execute_job, after the body returned or raised an
\* Exception.
Finish(queue, status, result, error) ==
    LET job == [jobs[current[queue]] EXCEPT
                    !.status = status, !.finished_ts = now,
                    !.result = result, !.error = error,
                    !.progress = IF status = "done" THEN 10 ELSE @]
    IN /\ pc[queue] = "body"
       /\ jobs' = [jobs EXCEPT ![job.id] = job]
       /\ running_counts' = [running_counts EXCEPT ![job.queue] =
                                 Decrement(@)]
       /\ AppendCompletion(job)
       /\ history' = DequeAppend(history,
                         [job_id |-> job.id, queue |-> job.queue,
                          status |-> status,
                          llm |-> NotesOrEmpty(job.llm_notes)],
                         HistoryMaxLen)
       /\ current' = [current EXCEPT ![queue] = 0]
       /\ pc' = [pc EXCEPT ![queue] = "top"]
       /\ last' = Quiet
       /\ UNCHANGED <<budgets, queues, key_map, cancelled, running, candidates,
                      now,  delivered>>

BodyReturnsDroppedOnShutdown(queue, result) ==
    IF running
    THEN Finish(queue, "done", result, None)
    ELSE /\ pc[queue] = "body"
         /\ pc' = [pc EXCEPT ![queue] = "top"]
         /\ last' = Quiet
         /\ UNCHANGED <<budgets, jobs, queues, key_map, cancelled,
                        running_counts, completions, history, running,
                        candidates, current, now, appended, delivered>>

BodyReturns(queue, result) == Finish(queue, "done", result, None)

BodyRaisesLosesMessage(queue, error) == Finish(queue, "error", None, None)

BodyRaises(queue, error) == Finish(queue, "error", None, error)

\* The body raises a BaseException that is not an Exception: the except
\* clause does not bind status, the finally block fails on its first
\* statement and the thread ends with the record still running.
BodyEscapes(queue) ==
    /\ pc[queue] = "body"
    /\ pc' = [pc EXCEPT ![queue] = "crashed"]
    /\ last' = Quiet
    /\ UNCHANGED <<budgets, jobs, queues, key_map, cancelled, running_counts,
                   completions, history, running, candidates, current, now,  appended, delivered>>

\* -------------------------------------------------------------------- Next
\* Every locked block is one step here: the lock is taken and released
\* within the step and is free between steps, and the payload a worker
\* builds for the oracle is not kept.
Next ==
    \/ Tick /\ UNCHANGED sync
    \/ \E a \in SubmitArgs :
          Submit("k", a[1], a[2], a[3], a[4]) /\ UNCHANGED sync
    \/ \E job_id \in CancelArgs : Cancel(job_id) /\ UNCHANGED sync
    \/ \E limit \in LimitArgs : PollCompleted(limit) /\ UNCHANGED sync
    \/ \E store \in StoreArgs :
          \E failing \in (IF store = "failing"
                          THEN SUBSET (1..Len(completions)) ELSE {{}}) :
              DrainToMemory(store, failing) /\ UNCHANGED sync
    \/ Shutdown /\ UNCHANGED sync
    \/ \E queue \in Queues :
          \/ WorkerRound(queue) /\ UNCHANGED sync
          \/ OracleRaises(queue) /\ UNCHANGED sync
          \/ OracleCrashes(queue) /\ UNCHANGED sync
          \/ \E response \in Responses :
                OracleReplies(queue, response) /\ UNCHANGED sync
          \/ \E value \in ProgressArgs :
                UpdateProgress(queue, value) /\ UNCHANGED sync
          \/ \E result \in Results :
                BodyReturns(queue, result) /\ UNCHANGED sync
          \/ \E error \in Errors : BodyRaises(queue, error) /\ UNCHANGED sync
          \/ BodyEscapes(queue) /\ UNCHANGED sync

Spec == Init /\ [][Next]_vars

\* The call_dict call a worker is in returns or raises.
OracleReturns(queue) ==
    \/ OracleRaises(queue)
    \/ OracleCrashes(queue)
    \/ \E response \in Responses : OracleReplies(queue, response)

\* The job body a worker is in returns or raises.
BodyTerminates(queue) ==
    \/ \E result \in Results : BodyReturns(queue, result)
    \/ \E error \in Errors : BodyRaises(queue, error)
    \/ BodyEscapes(queue)

\* Each worker is a thread that the scheduler keeps running, and the oracle
\* call and the job body it is in terminate.
FairSpec ==
    /\ Spec
    /\ \A queue \in Queues :
          /\ WF_vars(WorkerRound(queue) /\ UNCHANGED sync)
          /\ WF_vars(OracleReturns(queue) /\ UNCHANGED sync)
          /\ WF_vars(BodyTerminates(queue) /\ UNCHANGED sync)

\* ------------------------------------------------- any worker configuration
\* interactive_workers, background_workers as a caller may pass them: the
\* defaults, zero, and more than one worker for each queue.
AnyWorkerConfigs == {<<1, 2>>, <<0, 0>>, <<3, 4>>}

ConfigInit ==
    /\ \E w \in AnyWorkerConfigs : budgets = Budgets(w[1], w[2])
    /\ jobs = <<>>
    /\ queues = [q \in Queues |-> <<>>]
    /\ key_map = <<>>
    /\ cancelled = {}
    /\ running_counts = [q \in Queues |-> 0]
    /\ completions = <<>>
    /\ history = <<>>
    /\ running = TRUE
    /\ pc = [q \in Queues |-> "top"]
    /\ candidates = [q \in Queues |-> <<>>]
    /\ current = [q \in Queues |-> 0]
    /\ now = 1
    /\ last = Quiet
    /\ appended = [i \in 1..MaxJobs |-> 0]
    /\ delivered = <<>>
    /\ lock = "free"
    /\ payload = [q \in Queues |-> NoPayload]

\* The operations that write records, running counts or worker positions;
\* the clock stands still and nothing reads the completion buffer.
ConfigNext ==
    \/ \E a \in SubmitArgs :
          Submit("k", a[1], a[2], a[3], a[4]) /\ UNCHANGED sync
    \/ \E job_id \in CancelArgs : Cancel(job_id) /\ UNCHANGED sync
    \/ Shutdown /\ UNCHANGED sync
    \/ \E queue \in Queues :
          \/ WorkerRound(queue) /\ UNCHANGED sync
          \/ OracleRaises(queue) /\ UNCHANGED sync
          \/ OracleCrashes(queue) /\ UNCHANGED sync
          \/ \E response \in Responses :
                OracleReplies(queue, response) /\ UNCHANGED sync
          \/ \E value \in ProgressArgs :
                UpdateProgress(queue, value) /\ UNCHANGED sync
          \/ \E result \in Results :
                BodyReturns(queue, result) /\ UNCHANGED sync
          \/ \E error \in Errors : BodyRaises(queue, error) /\ UNCHANGED sync
          \/ BodyEscapes(queue) /\ UNCHANGED sync

ConfigSpec == ConfigInit /\ [][ConfigNext]_vars

\* ---------------------------------------------------------- loaded manager
\* The manager after MaxBacklog submit(queue="background") calls and one
\* submit(queue="interactive") call, none with a key, before any worker
\* round.
LoadedInit ==
    /\ budgets = Budgets(1, 2)
    /\ now = 1
    /\ jobs = [i \in 1..(MaxBacklog + 1) |->
                  NewRecord(i, "k",
                            IF i <= MaxBacklog THEN "background"
                            ELSE "interactive",
                            5, "", "FALSE")]
    /\ queues = [q \in Queues |->
                    IF q = "background" THEN [i \in 1..MaxBacklog |-> i]
                    ELSE <<MaxBacklog + 1>>]
    /\ key_map = <<>>
    /\ cancelled = {}
    /\ running_counts = [q \in Queues |-> 0]
    /\ completions = <<>>
    /\ history = <<>>
    /\ running = TRUE
    /\ pc = [q \in Queues |-> "top"]
    /\ candidates = [q \in Queues |-> <<>>]
    /\ current = [q \in Queues |-> 0]
    /\ last = Quiet
    /\ appended = [i \in 1..(MaxBacklog + 1) |-> 0]
    /\ delivered = <<>>
    /\ lock = "free"
    /\ payload = [q \in Queues |-> NoPayload]

\* Replies of the oracle: no list, or a list of one entry that names the
\* newest background job.
LoadedResponses ==
    {[shape |-> "nolist", items |-> <<>>]}
        \cup {[shape |-> "list",
                items |-> <<[job_id |-> MaxBacklog, note |-> n]>>] :
                  n \in Notes}

LoadedReplies(queue) ==
    \E response \in LoadedResponses : OracleReplies(queue, response)

BodyReturnsOrRaises(queue) ==
    \/ \E result \in Results : BodyReturns(queue, result)
    \/ \E error \in Errors : BodyRaises(queue, error)

\* Every oracle call returns a reply and every body returns or raises an
\* Exception; a caller may cancel the newest background job and may shut
\* the manager down.
LoadedNext ==
    \/ Cancel(MaxBacklog) /\ UNCHANGED sync
    \/ Shutdown /\ UNCHANGED sync
    \/ \E queue \in Queues :
          \/ WorkerRound(queue) /\ UNCHANGED sync
          \/ LoadedReplies(queue) /\ UNCHANGED sync
          \/ BodyReturnsOrRaises(queue) /\ UNCHANGED sync

LoadedSpec ==
    /\ LoadedInit
    /\ [][LoadedNext]_vars
    /\ \A queue \in Queues :
          /\ WF_vars(WorkerRound(queue) /\ UNCHANGED sync)
          /\ WF_vars(LoadedReplies(queue) /\ UNCHANGED sync)
          /\ WF_vars(BodyReturnsOrRaises(queue) /\ UNCHANGED sync)

\* ------------------------------------------------- manager left running
\* The manager when shutdown() is not called, every oracle call returns a
\* reply and every body returns or raises an Exception.
AnyReply(queue) ==
    \E response \in Responses : OracleReplies(queue, response)

RunningNext ==
    \/ Tick /\ UNCHANGED sync
    \/ \E a \in SubmitArgs :
          Submit("k", a[1], a[2], a[3], a[4]) /\ UNCHANGED sync
    \/ \E job_id \in CancelArgs : Cancel(job_id) /\ UNCHANGED sync
    \/ \E queue \in Queues :
          \/ WorkerRound(queue) /\ UNCHANGED sync
          \/ AnyReply(queue) /\ UNCHANGED sync
          \/ \E value \in ProgressArgs :
                UpdateProgress(queue, value) /\ UNCHANGED sync
          \/ BodyReturnsOrRaises(queue) /\ UNCHANGED sync

RunningSpec ==
    /\ Init
    /\ [][RunningNext]_vars
    /\ \A queue \in Queues :
          /\ WF_vars(WorkerRound(queue) /\ UNCHANGED sync)
          /\ WF_vars(AnyReply(queue) /\ UNCHANGED sync)
          /\ WF_vars(BodyReturnsOrRaises(queue) /\ UNCHANGED sync)

\* ----------------------------------------------- nearly full completion buffer
\* The manager after CompletionsMaxLen + 2 submit(queue="background") calls
\* without key and the cancellation of all but the last three jobs, before
\* any worker round and any poll: the buffer is one payload short of full.
FullJobs == CompletionsMaxLen + 2

FullPending == {FullJobs - 2, FullJobs - 1, FullJobs}

FullRecord(i) ==
    IF i \in FullPending
    THEN NewRecord(i, "k", "background", 5, "", "FALSE")
    ELSE [NewRecord(i, "k", "background", 5, "", "FALSE")
              EXCEPT !.status = "cancelled", !.finished_ts = now]

FullInit ==
    /\ budgets = Budgets(1, 2)
    /\ now = 1
    /\ jobs = [i \in 1..FullJobs |-> FullRecord(i)]
    /\ queues = [q \in Queues |->
                    IF q = "background"
                    THEN <<FullJobs - 2, FullJobs - 1, FullJobs>>
                    ELSE <<>>]
    /\ key_map = <<>>
    /\ cancelled = (1..FullJobs) \ FullPending
    /\ running_counts = [q \in Queues |-> 0]
    /\ appended = [i \in 1..FullJobs |-> IF i \in FullPending THEN 0 ELSE 1]
    /\ completions = [i \in 1..(FullJobs - 3) |->
                         [CompletionPayload(jobs[i]) EXCEPT !.serial = i]]
    /\ history = <<>>
    /\ running = TRUE
    /\ pc = [q \in Queues |-> "top"]
    /\ candidates = [q \in Queues |-> <<>>]
    /\ current = [q \in Queues |-> 0]
    /\ last = Quiet
    /\ delivered = <<>>
    /\ lock = "free"
    /\ payload = [q \in Queues |-> NoPayload]

\* Replies of the oracle: no list, or a list of one entry that names one of
\* the three waiting jobs.
FullResponses ==
    {[shape |-> "nolist", items |-> <<>>]}
        \cup {[shape |-> "list", items |-> <<[job_id |-> c, note |-> n]>>] :
                  c \in FullPending, n \in Notes}

FullReplies(queue) ==
    \E response \in FullResponses : OracleReplies(queue, response)

\* A consumer takes at most MaxPolled calls' worth of payloads, one at a
\* time or through drain_to_memory(None).
FullNext ==
    \/ \E job_id \in FullPending : Cancel(job_id) /\ UNCHANGED sync
    \/ Len(delivered) < MaxPolled /\ PollCompleted(1) /\ UNCHANGED sync
    \/ Len(delivered) < MaxPolled /\ DrainToMemory("None", {})
          /\ UNCHANGED sync
    \/ \E queue \in Queues :
          \/ WorkerRound(queue) /\ UNCHANGED sync
          \/ FullReplies(queue) /\ UNCHANGED sync
          \/ BodyReturnsOrRaises(queue) /\ UNCHANGED sync

FullSpec == FullInit /\ [][FullNext]_vars

\* ----------------------------------------------------------- the lock
\* The same manager with `with self._lock:` in two steps: a thread enters
\* the block when no thread is inside, and its next step is the block's
\* body, at the end of which it leaves.  The threads are one caller and the
\* two workers.
Threads == {"caller"} \cup Queues

data == <<budgets, jobs, queues, key_map, cancelled, running_counts,
          completions, history, running, pc, candidates, current, now, last,
          appended, delivered>>

\* Where a worker enters a locked block: at the top of a round, after
\* call_dict returned a reply to the payload it built, and from the body
\* (update_progress, and the finally block of _execute_job).
AtLockedBlock(queue) ==
    \/ pc[queue] = "top"
    \/ pc[queue] = "oracle" /\ payload[queue].built
    \/ pc[queue] = "body"

Acquire(t) ==
    /\ lock = "free"
    /\ t \in Queues => AtLockedBlock(t)
    /\ lock' = t
    /\ UNCHANGED <<data, payload>>

\* is_low_load
IsLowLoad ==
    /\ last' = [op |-> "is_low_load", arg |-> 0, val |-> LowLoad]
    /\ UNCHANGED <<budgets, jobs, queues, key_map, cancelled, running_counts,
                   completions, history, running, pc, candidates, current,
                   now, appended, delivered>>

\* The locked block of submit, cancel, poll_completed or is_low_load.
CallerBlock ==
    /\ lock = "caller"
    /\ lock' = "free"
    /\ UNCHANGED payload
    /\ \/ \E a \in SubmitArgs : Submit("k", a[1], a[2], a[3], a[4])
       \/ \E job_id \in CancelArgs : Cancel(job_id)
       \/ \E limit \in LimitArgs : PollCompleted(limit)
       \/ IsLowLoad

\* as_payload() of every candidate and list(self._history), after the first
\* locked block of _select_job and before call_dict.
BuildPayload(queue) ==
    [built |-> TRUE,
     jobs |-> [i \in DOMAIN candidates[queue] |->
                  [job_id |-> candidates[queue][i],
                   status |-> jobs[candidates[queue][i]].status]],
     history |-> history]

ReadPayload(queue) ==
    /\ pc[queue] = "oracle"
    /\ ~payload[queue].built
    /\ payload' = [payload EXCEPT ![queue] = BuildPayload(queue)]
    /\ UNCHANGED <<data, lock>>

\* call_dict raises an LLM error: _select_job returns without a lock.
LLMErrorReturn(queue) ==
    /\ payload[queue].built
    /\ OracleRaises(queue)
    /\ payload' = [payload EXCEPT ![queue] = NoPayload]
    /\ UNCHANGED lock

WorkerBlockKeepsLock(queue) ==
    /\ lock = queue
    /\ \/ WorkerRound(queue) /\ UNCHANGED payload
       \/ /\ \E response \in Responses : OracleReplies(queue, response)
          /\ payload' = [payload EXCEPT ![queue] = NoPayload]
       \/ /\ \/ \E value \in ProgressArgs : UpdateProgress(queue, value)
             \/ BodyReturnsOrRaises(queue)
          /\ UNCHANGED payload
    /\ lock' = (IF pc'[queue] = "oracle" THEN queue ELSE "free")

\* The locked block a worker is in: the first block of _select_job, the
\* block of _fail_job or the admission block after a reply, or a block
\* entered from the body.
WorkerBlock(queue) ==
    /\ lock = queue
    /\ lock' = "free"
    /\ \/ WorkerRound(queue) /\ UNCHANGED payload
       \/ /\ \E response \in Responses : OracleReplies(queue, response)
          /\ payload' = [payload EXCEPT ![queue] = NoPayload]
       \/ /\ \/ \E value \in ProgressArgs : UpdateProgress(queue, value)
             \/ BodyReturnsOrRaises(queue)
          /\ UNCHANGED payload

LockNext ==
    \/ \E t \in Threads : Acquire(t)
    \/ CallerBlock
    \/ \E queue \in Queues :
          \/ ReadPayload(queue)
          \/ LLMErrorReturn(queue)
          \/ WorkerBlock(queue)

\* A thread inside a locked block runs the block to its end; nothing is
\* assumed of the oracle, of the bodies or of the callers.
LockSpec ==
    /\ Init
    /\ [][LockNext]_vars
    /\ WF_vars(CallerBlock)
    /\ \A queue \in Queues : WF_vars(WorkerBlock(queue))

\* ============================================================== properties
StatusOf(i) == jobs[i].status

\* C1: in every reachable state the running count of each queue is at most
\* the max_running budget configured for that queue.
BudgetInvariant == \A q \in Queues : running_counts[q] <= budgets[q]

\* A queue whose running count has reached its budget while its worker is
\* inside a job body.
BudgetReached ==
    \E q \in Queues : running_counts[q] = budgets[q] /\ pc[q] = "body"

ActiveWithKey(k) == {i \in Ids : jobs[i].key = k /\ StatusOf(i) \in Active}

\* C2 as stated: for each key carried by a record, at most one record with
\* that key is queued or running.
AtMostOneActivePerKey ==
    \A k \in KeyArgs : Cardinality(ActiveWithKey(k)) <= 1

\* C2 as amended: for each non-empty key, at most one record with that key
\* is queued or running (records with an empty key are never deduplicated).
AtMostOneActivePerNonEmptyKey ==
    \A k \in KeyArgs \ {""} : Cardinality(ActiveWithKey(k)) <= 1

\* A key was reused after its first job ended: two records carry it, one
\* terminal and one active.
KeyReusedAfterTerminal ==
    \E i, j \in Ids :
        /\ i < j
        /\ jobs[i].key = "A" /\ jobs[j].key = "A"
        /\ StatusOf(i) \in Terminal /\ StatusOf(j) \in Active

\* C3: a submit whose non-empty key maps to a queued or running job returns
\* that job's id and leaves the job table (every field of every record), the
\* pending lists, the key map and the running counts as they were, whatever
\* queue, urgent and priority the call passes; no record is created.
DedupSubmitChangesNothing ==
    [][\A a \in SubmitArgs :
          ( /\ a[3] # ""
            /\ a[3] \in DOMAIN key_map
            /\ StatusOf(key_map[a[3]]) \in Active
            /\ Submit("k", a[1], a[2], a[3], a[4]) )
          => /\ last'.op = "submit"
             /\ last'.val = key_map[a[3]]
             /\ UNCHANGED <<jobs, queues, key_map, running_counts,
                            cancelled, completions, history>>]_vars

\* The last call was a submit that returned the id of a job that is running,
\* with a queue, urgent flag or priority that differ from the record's.
DedupSubmitAbsorbed ==
    /\ last.op = "submit"
    /\ StatusOf(last.val) = "running"
    /\ jobs[last.val].key = last.arg[3]
    /\ jobs[last.val].priority # Clamp01(last.arg[2])
    /\ jobs[last.val].queue # AssignedQueue(last.arg[1], last.arg[4])

\* C4: cancel(id) returns true and sets the status to cancelled exactly when
\* the job exists and is queued; otherwise it returns false and leaves every
\* record, the pending lists, the cancellation set and the completion buffer
\* unchanged.
CancelOnlyQueued ==
    [][\A id \in CancelArgs :
          Cancel(id) =>
              IF id \in Ids /\ StatusOf(id) = "queued"
              THEN /\ last'.op = "cancel" /\ last'.val = TRUE
                   /\ jobs'[id].status = "cancelled"
              ELSE /\ last'.op = "cancel" /\ last'.val = FALSE
                   /\ UNCHANGED <<jobs, queues, cancelled, completions>>]_vars

\* The last call was a cancel that returned true, and a cancelled job is in
\* the cancellation set and out of its pending list.
CancelSucceeded ==
    /\ last.op = "cancel" /\ last.val = TRUE
    /\ \E i \in Ids : /\ StatusOf(i) = "cancelled"
                       /\ i \in cancelled
                       /\ ~InSeq(queues[jobs[i].queue], i)

\* C5: a status that is done, error or cancelled never changes again, and no
\* status returns to queued.
TerminalIsFinal ==
    [][\A i \in Ids :
          /\ StatusOf(i) \in Terminal => jobs'[i].status = StatusOf(i)
          /\ StatusOf(i) # "queued" => jobs'[i].status # "queued"]_vars

\* C6: at most one completion payload is ever appended for a job id, and it
\* is appended in the step in which the job enters a terminal state.
OneCompletionPerJob ==
    [][\A i \in 1..MaxJobs :
          /\ appended'[i] <= 1
          /\ (appended'[i] # appended[i])
                 <=> ( /\ i \in Ids
                       /\ StatusOf(i) \notin Terminal
                       /\ jobs'[i].status \in Terminal )]_vars

\* C7: no payload is returned twice by poll_completed / drain_to_memory, and
\* a payload that was returned is no longer in the buffer.
DeliveredOnce ==
    /\ \A i, j \in DOMAIN delivered :
            i # j => delivered[i] # delivered[j]
    /\ \A i \in DOMAIN delivered, c \in DOMAIN completions :
            completions[c].serial # delivered[i]

\* Two payloads were returned by two calls: a drain has just returned one
\* payload after an earlier call returned the other.
DeliveredByTwoCalls ==
    /\ last.op = "drain_to_memory"
    /\ last.val.drained = 1
    /\ Len(delivered) = 2

NamesNoCandidate(response, cands) ==
    \/ response.shape # "list"
    \/ \A k \in DOMAIN response.items :
            ~InSeq(cands, response.items[k].job_id)

CandidatesUntouched(q) ==
    /\ \A i \in Range(candidates[q]) : jobs'[i].status = StatusOf(i)
    /\ completions' = completions
    /\ appended' = appended

\* C8 as stated: a round whose oracle call raises, or whose reply is not a
\* mapping, has no prioritized_jobs list or lists no sampled id, changes no
\* candidate's status and appends no completion.
UnusableReplyChangesNothing ==
    [][\A q \in Queues :
          ( \/ OracleRaises(q)
            \/ OracleCrashes(q)
            \/ \E r \in Responses :
                   NamesNoCandidate(r, candidates[q]) /\ OracleReplies(q, r) )
          => CandidatesUntouched(q)]_vars

\* C8 as amended: a round whose oracle call raises changes no candidate's
\* status and appends no completion.
RaisedCallChangesNothing ==
    [][\A q \in Queues :
          (OracleRaises(q) \/ OracleCrashes(q)) => CandidatesUntouched(q)]_vars

\* The oracle call of a round has just raised, and nothing was ever appended
\* to the completion buffer.
RaisedWithoutCompletion ==
    /\ last.op = "oracle_raised"
    /\ queues[last.val] # <<>>
    /\ \A i \in Ids : StatusOf(i) = "queued"
    /\ \A i \in 1..MaxJobs : appended[i] = 0

\* C9: when the oracle replies and names no sampled candidate, the first
\* sampled candidate gets status error with error llm_missing_selection and
\* finished_ts stamped, leaves its pending list, gets one completion
\* appended; the running counts and every other record stay as they were;
\* and a job failed this way is never running afterwards.
MissingSelectionFailsHead ==
    [][/\ \A q \in Queues, r \in Responses :
            (OracleReplies(q, r) /\ NamesNoCandidate(r, candidates[q]))
            => LET h == candidates[q][1]
               IN /\ jobs'[h].status = "error"
                  /\ jobs'[h].error = "llm_missing_selection"
                  /\ jobs'[h].finished_ts = now /\ now > 0
                  /\ ~InSeq(queues'[jobs[h].queue], h)
                  /\ Len(completions') = Len(completions) + 1
                  /\ completions'[Len(completions')].job_id = h
                  /\ completions'[Len(completions')].status = "error"
                  /\ completions'[Len(completions')].error =
                         "llm_missing_selection"
                  /\ appended' = [appended EXCEPT ![h] = @ + 1]
                  /\ running_counts' = running_counts
                  /\ \A i \in Ids \ {h} : jobs'[i] = jobs[i]
       /\ \A i \in Ids :
            jobs[i].error = "llm_missing_selection"
            => /\ jobs'[i].status = "error"
               /\ jobs'[i].error = "llm_missing_selection"]_vars

\* The head of a two-job sample was failed with llm_missing_selection and
\* the other sampled job is still queued in the same pending list.
HeadFailedOtherQueued ==
    \E i, j \in Ids :
        /\ i < j
        /\ jobs[i].queue = jobs[j].queue
        /\ StatusOf(i) = "error" /\ jobs[i].error = "llm_missing_selection"
        /\ jobs[i].started_ts = 0 /\ jobs[i].finished_ts >= jobs[j].created_ts
        /\ StatusOf(j) = "queued"
        /\ queues[jobs[j].queue] = <<j>>
        /\ i \notin cancelled

\* C10: an oracle call that raises LLMUnavailableError or
\* LLMIntegrationError leaves the records, the pending lists, the running
\* counts, the completion buffer and the history unchanged and returns the
\* worker to the top of its loop; if nothing else touched the queue since
\* the sampling, the next round samples the same jobs.
RaiseIsRetried ==
    [][\A q \in Queues :
          OracleRaises(q)
          => /\ UNCHANGED <<jobs, queues, running_counts, completions,
                            history, key_map, cancelled>>
             /\ pc'[q] = "top"
             /\ Sample(q)' = Sample(q)
             /\ candidates[q] = Sample(q) => Sample(q)' = candidates[q]]_vars

\* A raise has just sent a worker back to the top of its loop while the
\* engine runs, with two jobs to sample again and its budget free.
RaisedWillResample ==
    /\ last.op = "oracle_raised"
    /\ running
    /\ pc[last.val] = "top"
    /\ Len(Sample(last.val)) = 2
    /\ running_counts[last.val] < budgets[last.val]

Ended == {"exited", "crashed"}

\* C11: a worker loop ends only because shutdown set the running flag false:
\* no step ends a worker loop (by leaving the loop or by an exception that
\* ends its thread) while the running flag is still true.
WorkerEndsOnlyByShutdown ==
    [][\A q \in Queues :
          (pc[q] \notin Ended /\ pc'[q] \in Ended) => ~running]_vars

\* C12: when a job body raises an Exception the job ends in status error
\* with the exception's description as error and result unset, the worker is
\* back at the top of its loop with its queue's budget free again, and no
\* other record is written.
BodyExceptionIsContained ==
    [][\A q \in Queues, e \in Errors :
          BodyRaises(q, e)
          => /\ jobs'[current[q]].status = "error"
             /\ jobs'[current[q]].error = e
             /\ jobs'[current[q]].result = None
             /\ pc'[q] = "top"
             /\ running_counts'[q] < budgets[q]
             /\ \A i \in Ids \ {current[q]} : jobs'[i] = jobs[i]]_vars

\* A worker whose first job ended in error from its body is executing a
\* later job of the same queue.
WorkerRunsAfterBodyError ==
    \E q \in Queues, i, j \in Ids :
        /\ i # j
        /\ jobs[i].queue = q /\ jobs[j].queue = q
        /\ StatusOf(i) = "error" /\ jobs[i].error \in Errors
        /\ jobs[i].result = None
        /\ StatusOf(j) = "running" /\ current[q] = j /\ pc[q] = "body"
        /\ jobs[j].started_ts >= jobs[i].finished_ts

\* C13: a job that cancel() moved to cancelled is never running, is never
\* the job a worker executes and keeps started_ts zero; and a reply that
\* selects such a job is abandoned: records, pending lists, running counts
\* and completion buffer unchanged, worker back at the top of its loop.
CancelledNeverRuns ==
    [][/\ \A i \in cancelled' :
            /\ jobs'[i].status # "running"
            /\ jobs'[i].started_ts = 0
            /\ \A q \in Queues : current'[q] # i
       /\ \A q \in Queues :
            pc[q] = "oracle" /\ pc'[q] # "oracle" =>
            \A r \in Responses :
            ( /\ ExtractJobId(r, candidates[q]) \in cancelled
              /\ OracleReplies(q, r) )
            => /\ UNCHANGED <<jobs, queues, running_counts, completions,
                              history, current>>
               /\ pc'[q] = "top"]_vars

\* A reply has just selected a job that was cancelled after it was sampled,
\* and the admission was abandoned.
LateAdmissionAbandoned ==
    /\ last.op = "stale_selection"
    /\ last.val \in cancelled
    /\ StatusOf(last.val) = "cancelled"
    /\ jobs[last.val].started_ts = 0
    /\ running_counts[jobs[last.val].queue] = 0

BodyEnds(q) ==
    \/ \E r \in Results : BodyReturns(q, r)
    \/ \E e \in Errors : BodyRaises(q, e)

\* C14: the step in which the body of a running job returns or raises moves
\* the job to done or error, stamps finished_ts, lowers the running count of
\* its queue by exactly one (the other count unchanged), appends exactly one
\* completion payload for it and exactly one history entry holding its id,
\* queue, status and oracle notes.
AdmittedJobFinishes ==
    [][\A q \in Queues :
          BodyEnds(q)
          => LET j == current[q]
                 c == completions'[Len(completions')]
             IN /\ StatusOf(j) = "running"
                /\ jobs'[j].status \in {"done", "error"}
                /\ jobs'[j].finished_ts = now /\ now > 0
                /\ running_counts'[jobs[j].queue] =
                       running_counts[jobs[j].queue] - 1
                /\ \A o \in Queues \ {jobs[j].queue} :
                       running_counts'[o] = running_counts[o]
                /\ Len(completions') = Len(completions) + 1
                /\ SubSeq(completions', 1, Len(completions)) = completions
                /\ c.job_id = j /\ c.status = jobs'[j].status
                /\ appended' = [appended EXCEPT ![j] = @ + 1]
                /\ Len(history') = Len(history) + 1
                /\ SubSeq(history', 1, Len(history)) = history
                /\ history'[Len(history')] =
                       [job_id |-> j, queue |-> jobs[j].queue,
                        status |-> jobs'[j].status,
                        llm |-> IF jobs[j].llm_notes = None THEN "{}"
                                ELSE jobs[j].llm_notes]]_vars

\* Two admitted jobs have finished, the first in error and the second done
\* with the oracle's notes in its history entry; nothing is running.
TwoJobsFinished ==
    /\ Len(history) = 2
    /\ history[1].status = "error"
    /\ history[2].status = "done" /\ history[2].llm \in Notes
    /\ StatusOf(history[2].job_id) = "done"
    /\ jobs[history[2].job_id].finished_ts > 0
    /\ \A q \in Queues : running_counts[q] = 0

\* C15: the clock never goes back; every terminal record has
\* created_ts <= finished_ts and, if it was admitted (started_ts set),
\* created_ts <= started_ts <= finished_ts; started_ts is zero while the
\* job is queued and finished_ts is zero until the job is terminal.
TimestampsOrdered ==
    \A i \in Ids :
        /\ jobs[i].created_ts > 0
        /\ StatusOf(i) \in Terminal
           => /\ jobs[i].created_ts <= jobs[i].finished_ts
              /\ jobs[i].started_ts # 0
                 => /\ jobs[i].created_ts <= jobs[i].started_ts
                    /\ jobs[i].started_ts <= jobs[i].finished_ts
        /\ StatusOf(i) = "queued" => jobs[i].started_ts = 0
        /\ StatusOf(i) \notin Terminal => jobs[i].finished_ts = 0

\* An admitted job is terminal with created_ts < finished_ts, next to a job
\* that was cancelled without being admitted.
AdmittedAndCancelledStamped ==
    \E i, j \in Ids :
        /\ StatusOf(i) \in {"done", "error"}
        /\ jobs[i].started_ts # 0
        /\ jobs[i].created_ts < jobs[i].finished_ts
        /\ StatusOf(j) = "cancelled"
        /\ jobs[j].started_ts = 0 /\ jobs[j].finished_ts >= jobs[j].created_ts

\* C16: a submit that creates a record assigns it to interactive exactly
\* when urgent is true or the requested queue is "interactive", and to
\* background otherwise; requested_queue is "interactive" for that request
\* and background for any other; the new id is appended to the assigned
\* queue's pending list and the other pending list is unchanged.
SubmitRoutesByUrgency ==
    [][\A a \in SubmitArgs :
          (Submit("k", a[1], a[2], a[3], a[4]) /\ Len(jobs') = Len(jobs) + 1)
          => LET id == Len(jobs')
                 want == IF a[4] = "TRUE" \/ a[1] = "interactive"
                         THEN "interactive" ELSE "background"
             IN /\ last'.val = id
                /\ jobs'[id].queue = want
                /\ jobs'[id].requested_queue =
                       (IF a[1] = "interactive" THEN "interactive"
                        ELSE "background")
                /\ jobs'[id].urgent = (a[4] = "TRUE")
                /\ queues'[want] = Append(queues[want], id)
                /\ \A o \in Queues \ {want} : queues'[o] = queues[o]]_vars

\* submit(urgent=True, queue="background") has just created a record that
\* is assigned to interactive with requested_queue background and is the
\* last id of the interactive pending list only.
UrgentBackgroundRouted ==
    /\ last.op = "submit"
    /\ last.arg[1] = "background" /\ last.arg[4] = "TRUE"
    /\ last.val \in Ids
    /\ jobs[last.val].queue = "interactive"
    /\ jobs[last.val].requested_queue = "background"
    /\ queues["interactive"] # <<>>
    /\ queues["interactive"][Len(queues["interactive"])] = last.val
    /\ ~InSeq(queues["background"], last.val)

\* What a call returned: the serials added to `delivered` by the step.
Returned == SubSeq(delivered', Len(delivered) + 1, Len(delivered'))

OldestReturned(k) ==
    /\ Len(Returned) = k
    /\ \A i \in 1..k : Returned[i] = completions[i].serial
    /\ Len(completions') = Len(completions) - k
    /\ \A i \in 1..(Len(completions) - k) :
            completions'[i] = completions[k + i]

\* C17 as stated: poll_completed(limit) removes and returns the oldest
\* min(limit, n) of the n buffered payloads (none for a limit of 0 or
\* below) in the order they were appended, never more than limit, and
\* leaves the others buffered in their order.
PollReturnsAtMostLimit ==
    [][\A limit \in LimitArgs :
          PollCompleted(limit)
          => /\ OldestReturned(Max(0, Min(limit, Len(completions))))
             /\ Len(Returned) <= Max(0, limit)]_vars

\* C17 as amended: poll_completed(limit) treats a limit below 1 as 1: it
\* removes and returns the oldest min(max(1, limit), n) of the n buffered
\* payloads in the order they were appended, never more than max(1, limit),
\* and leaves the others buffered in their order.
PollReturnsOldestClamped ==
    [][last'.op = "poll_completed" =>
       \A limit \in LimitArgs :
          PollCompleted(limit)
          => /\ OldestReturned(IF limit < 1
                               THEN Min(1, Len(completions))
                               ELSE Min(limit, Len(completions)))
             /\ last'.arg = limit
             /\ last'.val = Len(Returned)
             /\ Len(Returned) <= (IF limit < 1 THEN 1 ELSE limit)]_vars

\* poll_completed with a limit of 0 or below has just returned one payload
\* and left a newer one in the buffer.
PollBelowOneReturnedOne ==
    /\ last.op = "poll_completed"
    /\ last.arg < 1
    /\ last.val = 1
    /\ completions # <<>>
    /\ delivered[Len(delivered)] < completions[1].serial

ShutdownStopsWorkers ==
    /\ (~running) ~> (\A q \in Queues : pc[q] \in Ended)
    /\ [][\A q \in Queues :
             (pc[q] # "exited" /\ pc'[q] = "exited")
             => (pc[q] = "top" /\ ~running)]_vars

\* shutdown() has just been called while one worker is inside the oracle
\* call and the other inside a job body.
ShutdownDuringRound ==
    /\ last.op = "shutdown"
    /\ ~running
    /\ \E q, o \in Queues : pc[q] = "oracle" /\ pc[o] = "body"

\* C20: the step that sets the running flag false changes no record, no
\* worker position, no count and no buffer; a body that returns or raises
\* after it still takes its job to done or error, appends its completion
\* and lowers its queue's running count; and when every worker has left its
\* loop every running count is zero.
ShutdownLetsJobsFinish ==
    /\ [][/\ (running /\ ~running')
             => UNCHANGED <<jobs, queues, pc, current, candidates,
                            running_counts, completions, history, cancelled>>
          /\ \A q \in Queues :
               (~running /\ pc[q] = "body" /\ pc'[q] \notin {"body", "crashed"})
               => /\ jobs'[current[q]].status \in {"done", "error"}
                  /\ jobs'[current[q]].finished_ts = now
                  /\ running_counts'[q] = running_counts[q] - 1
                  /\ Len(completions') = Len(completions) + 1
                  /\ completions'[Len(completions')].job_id = current[q]
                  /\ pc'[q] = "top"]_vars
    /\ []((\A q \in Queues : pc[q] = "exited")
             => (\A q \in Queues : running_counts[q] = 0))

\* shutdown() has just been called while a worker is executing a job.
ShutdownWhileJobRuns ==
    /\ last.op = "shutdown"
    /\ ~running
    /\ \E q \in Queues :
          /\ pc[q] = "body"
          /\ StatusOf(current[q]) = "running"
          /\ running_counts[q] = 1

NewlyRunning == {i \in Ids : StatusOf(i) # "running" /\ jobs'[i].status = "running"}

ListedCandidates(q, r) ==
    IF r.shape # "list" THEN {}
    ELSE {k \in DOMAIN r.items : InSeq(candidates[q], r.items[k].job_id)}

\* C23: the job a round admits is the first entry of the reply's
\* prioritized_jobs whose job_id is among the round's sampled candidates
\* (admitted if it is still queued); entries with any other id are passed
\* over and never admitted; no step sets more than one job running, and a
\* job is set running only by a reply step of its own queue's worker.
FirstListedCandidateAdmitted ==
    [][/\ jobs' # jobs =>
            /\ Cardinality(NewlyRunning) <= 1
            /\ \A j \in NewlyRunning :
                 /\ pc[jobs[j].queue] = "oracle"
                 /\ InSeq(candidates[jobs[j].queue], j)
       /\ \A q \in Queues :
            pc[q] = "oracle" /\ pc'[q] # "oracle" =>
            \A r \in Responses :
              OracleReplies(q, r)
              => IF ListedCandidates(q, r) = {}
                 THEN NewlyRunning = {}
                 ELSE LET k == CHOOSE m \in ListedCandidates(q, r) :
                                  \A n \in ListedCandidates(q, r) : m <= n
                          c == r.items[k].job_id
                      IN NewlyRunning =
                             (IF StatusOf(c) = "queued" THEN {c} ELSE {})]_vars

\* A reply listed an id outside the sample first and a sampled candidate
\* second: the candidate is running, and the only other job (assigned to the
\* other queue, or no longer queued) is not.
SecondEntryAdmitted ==
    /\ last.op = "admitted"
    /\ last.arg = 1
    /\ StatusOf(last.val) = "running"
    /\ Len(jobs) = 2
    /\ \A i \in Ids \ {last.val} : StatusOf(i) # "running"

RunningIn(q) == {i \in Ids : StatusOf(i) = "running" /\ jobs[i].queue = q}

QueuedIn(q) == {i \in Ids : StatusOf(i) = "queued" /\ jobs[i].queue = q}

\* C29: in every reachable state the running count of a queue is the number
\* of records with status running assigned to it; the step that sets a job
\* running raises it by one, the step that ends a running job lowers it by
\* one, no other step changes it, and the decrement is never applied to a
\* count of zero.
CountMatchesRunningRecords ==
    /\ [](\A q \in Queues : running_counts[q] = Cardinality(RunningIn(q)))
    /\ [][(jobs' # jobs \/ running_counts' # running_counts) =>
          \A q \in Queues :
             /\ running_counts'[q] =
                    running_counts[q]
                      + Cardinality(RunningIn(q)' \ RunningIn(q))
                      - Cardinality(RunningIn(q) \ RunningIn(q)')
             /\ (pc[q] = "body" /\ pc'[q] = "top")
                => running_counts[q] >= 1]_vars

\* A job has run and ended and a second job of the same queue is running:
\* the count went up, down and up again.
CountedThroughTwoJobs ==
    \E q \in Queues, i, j \in Ids :
        /\ i # j
        /\ jobs[i].queue = q /\ jobs[j].queue = q
        /\ StatusOf(i) \in {"done", "error"} /\ jobs[i].started_ts # 0
        /\ StatusOf(j) = "running"
        /\ running_counts[q] = 1

RECURSIVE Ascending(_)
Ascending(s) ==
    IF Len(s) < 2 THEN TRUE
    ELSE s[1] < s[2] /\ Ascending(Tail(s))

\* C30: in every reachable state the pending list of a queue holds exactly
\* the ids of the queued records assigned to that queue, each once and in
\* submission order, so a job leaves the list in the step in which it stops
\* being queued; and the list lengths is_low_load adds up equal the number
\* of queued jobs.
PendingListsMatchQueuedRecords ==
    /\ \A q \in Queues :
          /\ Range(queues[q]) = QueuedIn(q)
          /\ Len(queues[q]) = Cardinality(QueuedIn(q))
          /\ Ascending(queues[q])
    /\ LowLoad <=>
          Cardinality({i \in Ids : StatusOf(i) = "queued"})
            + Cardinality({i \in Ids : StatusOf(i) = "running"})
          < LowLoadThreshold

\* Of two jobs submitted to one queue the first was cancelled and left the
\* list; the second is the list's only entry and is_low_load is true.
CancelledLeftPendingList ==
    \E q \in Queues :
        /\ Len(jobs) = 2
        /\ jobs[1].queue = q /\ jobs[2].queue = q
        /\ StatusOf(1) = "cancelled" /\ StatusOf(2) = "queued"
        /\ queues[q] = <<2>>
        /\ LowLoad

\* C28: whatever interactive_workers and background_workers are, one worker
\* loop serves each queue, so at most one record per queue is running, no
\* running count exceeds 1, and a budget above 1 is never reached.
OneRunningJobPerQueue ==
    \A q \in Queues :
        /\ Cardinality(RunningIn(q)) <= 1
        /\ running_counts[q] <= 1
        /\ budgets[q] > 1 => running_counts[q] < budgets[q]

\* With an interactive budget of 3 one interactive job is running and
\* another is queued behind it while the interactive worker is inside the
\* body.
SecondJobWaitsUnderBudget ==
    /\ budgets["interactive"] = 3
    /\ pc["interactive"] = "body"
    /\ Cardinality(RunningIn("interactive")) = 1
    /\ Cardinality(QueuedIn("interactive")) = 1
    /\ running_counts["interactive"] = 1

\* C24: a round that goes on to the oracle has sampled exactly the first
\* min(10, n) of the n queued records assigned to the worker's own queue,
\* in submission order, and nothing else; and no round goes on to the
\* oracle, or holds a sample, when the queue's running count has reached
\* its budget.
SampleIsOldestQueued ==
    [][\A q \in Queues :
          /\ (pc[q] # "oracle" /\ pc'[q] = "oracle")
             => /\ running_counts[q] < budgets[q]
                /\ Range(candidates'[q]) \subseteq QueuedIn(q)
                /\ Len(candidates'[q]) =
                       (IF Cardinality(QueuedIn(q)) < CandidateCap
                        THEN Cardinality(QueuedIn(q)) ELSE CandidateCap)
                /\ Len(candidates'[q]) >= 1
                /\ Ascending(candidates'[q])
                /\ \A c \in Range(candidates'[q]) :
                     \A i \in QueuedIn(q) \ Range(candidates'[q]) : c < i
          /\ pc'[q] # "oracle" => candidates'[q] = <<>>]_vars

\* The background worker has sampled ten of eleven queued background jobs:
\* the newest one and the interactive job are left out.
SampledTenOfEleven ==
    /\ pc["background"] = "oracle"
    /\ Len(candidates["background"]) = CandidateCap
    /\ Cardinality(QueuedIn("background")) = CandidateCap + 1
    /\ ~InSeq(candidates["background"], MaxBacklog)
    /\ StatusOf(MaxBacklog) = "queued"
    /\ StatusOf(MaxBacklog + 1) = "queued"

Sampled(i) == \E q \in Queues : InSeq(candidates[q], i)

AllJobsSettle ==
    <>[](/\ \A i \in Ids : StatusOf(i) \in Terminal
         /\ \A q \in Queues : queues[q] = <<>>)

\* Every job that could be submitted was submitted and has settled: one
\* failed for want of a selection, one ran to done, and both workers are
\* back at the top of their loop with empty pending lists.
BacklogSettled ==
    /\ Len(jobs) = MaxJobs
    /\ \A i \in Ids : StatusOf(i) \in Terminal
    /\ \E i \in Ids : jobs[i].error = "llm_missing_selection"
    /\ \E i \in Ids : StatusOf(i) = "done"
    /\ \A q \in Queues : queues[q] = <<>> /\ pc[q] = "top"
    /\ running

\* C26: the completion buffer never holds more than 256 payloads; an append
\* to a full buffer discards exactly the oldest payload and keeps the others
\* in append order; and in every other step the payloads that leave the
\* buffer are the oldest ones, handed to the caller of poll_completed or
\* drain_to_memory in that step.
BufferBoundedOldestFirst ==
    /\ [](Len(completions) <= CompletionsMaxLen)
    /\ [][LET old == Serials(completions)
              new == Serials(completions')
          IN IF appended' # appended
             THEN /\ new = (IF Len(old) = CompletionsMaxLen
                            THEN Tail(old) ELSE old)
                              \o <<Total(appended, Len(appended)) + 1>>
                  /\ delivered' = delivered
             ELSE \E k \in 0..Len(old) :
                     /\ new = SubSeq(old, k + 1, Len(old))
                     /\ delivered' = delivered \o SubSeq(old, 1, k)]_vars

\* The full buffer has discarded its oldest payload, which no caller ever
\* received, to take the 257th; the payloads 2..257 are kept in order.
OldestPayloadEvicted ==
    /\ Len(completions) = CompletionsMaxLen
    /\ delivered = <<>>
    /\ completions[1].serial = 2
    /\ completions[CompletionsMaxLen].serial = CompletionsMaxLen + 1
    /\ \A i \in 1..(CompletionsMaxLen - 1) :
          completions[i + 1].serial = completions[i].serial + 1

\* C21: every step that changes the job table, the pending lists, the dedup
\* map, the running counters, the cancellation set, the completion buffer
\* or the rolling history is taken by the thread that holds the lock, and a
\* worker that reads the rolling history and its candidates' records for
\* the oracle payload holds the lock while it reads.
AllAccessUnderLock ==
    [][/\ <<jobs, queues, key_map, running_counts, cancelled, completions,
           history>>' # <<jobs, queues, key_map, running_counts, cancelled,
                         completions, history>>
          => lock \in Threads
       /\ \A q \in Queues :
             (~payload[q].built /\ payload'[q].built) => lock = q]_vars

\* C22: a worker does not hold the lock in the step in which it builds the
\* payload and goes into the oracle call, nor when it has just entered a
\* job body; and a held lock is always released, whether or not any oracle
\* call or job body ever returns.
LockFreeDuringCalls ==
    /\ [][\A q \in Queues :
             /\ (~payload[q].built /\ payload'[q].built)
                    => (lock # q /\ lock' # q)
             /\ (pc[q] # "body" /\ pc'[q] = "body") => lock' # q]_vars
    /\ \A t \in Threads : (lock = t) ~> (lock = "free")

\* The caller is inside its locked block while one worker waits for the
\* oracle's answer to the payload it built and the other runs a job body.
CallerLockedWhileWorkersBusy ==
    /\ lock = "caller"
    /\ \E q \in Queues : pc[q] = "oracle" /\ payload[q].built
    /\ \E q \in Queues : pc[q] = "body"
====
